---- MODULE Spec2Model ----
(***************************************************************************)
(* Model of custom_components/miele/sensor.py: the sensor catalog          *)
(* SENSOR_TYPES, platform setup (async_setup_entry) and the MieleSensor     *)
(* entity (native_value, available).                                        *)
(*                                                                          *)
(* Python values are tagged records so that values of different Python     *)
(* types can be compared:  None, int, float (kept as exact hundredths),    *)
(* str, an opaque code imported from .const, and a raised exception.       *)
(***************************************************************************)
EXTENDS Integers, Sequences, FiniteSets, TLC

VARIABLES
    data,                 \* coordinator.data: appliance key -> flat dict (tag -> value)
    last_update_success,  \* coordinator.last_update_success
    now,                  \* wall clock read by dt_util.now(), minute of the day
    log_level,            \* _LOGGER.getEffectiveLevel()
    conf_sensors,         \* hass.data[DOMAIN][CONF_SENSORS]: unique id -> (raw -> display)
    id_log,               \* hass.data[DOMAIN]["id_log"]
    entities,             \* the list handed to async_add_entities (<<>> before setup)
    setup_done,           \* async_setup_entry has run
    extra_attributes,     \* the extra_attributes dict of each definition that has one
    result                \* what the last property read returned (or raised)

vars == <<data, last_update_success, now, log_level, conf_sensors, id_log,
          entities, setup_done, extra_attributes, result>>

----------------------------------------------------------------------------
(* Python values *)

None == [t |-> "None"]
IntV(i) == [t |-> "int", i |-> i]
FloatV(h) == [t |-> "float", hundredths |-> h]
StrV(s) == [t |-> "str", s |-> s]
CodeV(c) == [t |-> "code", c |-> c]
BoolV(b) == [t |-> "bool", b |-> b]
Raised(e) == [t |-> "raise", e |-> e]

IsInt(v) == v.t = "int"
IsRaised(v) == v.t = "raise"

----------------------------------------------------------------------------
(* Names imported from .const.  Their numeric values live outside this     *)
(* file; only their identity is used here, so each is an opaque token.     *)

WASHING_MACHINE == "WASHING_MACHINE"
TUMBLE_DRYER == "TUMBLE_DRYER"
DISHWASHER == "DISHWASHER"
OVEN == "OVEN"
OVEN_MICROWAVE == "OVEN_MICROWAVE"
HOB_HIGHLIGHT == "HOB_HIGHLIGHT"
STEAM_OVEN == "STEAM_OVEN"
MICROWAVE == "MICROWAVE"
COFFEE_SYSTEM == "COFFEE_SYSTEM"
HOOD == "HOOD"
FRIDGE == "FRIDGE"
FREEZER == "FREEZER"
FRIDGE_FREEZER == "FRIDGE_FREEZER"
ROBOT_VACUUM_CLEANER == "ROBOT_VACUUM_CLEANER"
WASHER_DRYER == "WASHER_DRYER"
DISH_WARMER == "DISH_WARMER"
HOB_INDUCTION == "HOB_INDUCTION"
STEAM_OVEN_COMBI == "STEAM_OVEN_COMBI"
WINE_CABINET == "WINE_CABINET"
WINE_CONDITIONING_UNIT == "WINE_CONDITIONING_UNIT"
WINE_STORAGE_CONDITIONING_UNIT == "WINE_STORAGE_CONDITIONING_UNIT"
STEAM_OVEN_MICRO == "STEAM_OVEN_MICRO"
DIALOG_OVEN == "DIALOG_OVEN"
WINE_CABINET_FREEZER == "WINE_CABINET_FREEZER"
HOB_INDUCT_EXTR == "HOB_INDUCT_EXTR"

STATE_STATUS_OFF == "STATE_STATUS_OFF"
STATE_STATUS_ON == "STATE_STATUS_ON"
STATE_STATUS_PROGRAMMED == "STATE_STATUS_PROGRAMMED"
STATE_STATUS_WAITING_TO_START == "STATE_STATUS_WAITING_TO_START"
STATE_STATUS_PROGRAM_ENDED == "STATE_STATUS_PROGRAM_ENDED"
STATE_STATUS_IDLE == "STATE_STATUS_IDLE"
STATE_STATUS_SERVICE == "STATE_STATUS_SERVICE"
STATE_STATUS_NOT_CONNECTED == "STATE_STATUS_NOT_CONNECTED"
\* a status code that sensor.py does not name (an appliance running a program)
STATUS_RUNNING == "STATUS_RUNNING"

MANUFACTURER == "MANUFACTURER"

\* logging.INFO
INFO == 20
\* the other levels of the logging module used as inputs
LogLevels == {10, 20, 30}

\* capacity of the id_log diagnostic buffer
IdLogCapacity == 500

----------------------------------------------------------------------------
(* MieleSensorDescription / MieleSensorDefinition *)

NoTag == "<None>"

\* defaults of MieleSensorDescription
type_key == "ident|type|value_localized"
type_key_raw == "ident|type|value_raw"
status_key_raw == "state|status|value_raw"

MieleSensorDefinition(types, key, tag, tag1, tag_loc, convert, states, extra) ==
    [types |-> types, key |-> key, data_tag |-> tag, data_tag1 |-> tag1,
     data_tag_loc |-> tag_loc, convert |-> convert,
     available_states |-> states, extra_attributes |-> extra]

\* the type lists that occur in SENSOR_TYPES
TemperatureTypes ==
    {OVEN, OVEN_MICROWAVE, STEAM_OVEN, MICROWAVE, FRIDGE, FREEZER, FRIDGE_FREEZER,
     STEAM_OVEN_COMBI, WINE_CABINET, WINE_CONDITIONING_UNIT,
     WINE_STORAGE_CONDITIONING_UNIT, STEAM_OVEN_MICRO, DIALOG_OVEN,
     WINE_CABINET_FREEZER}
TargetTemperatureTypes == TemperatureTypes \cup {WASHING_MACHINE, WASHER_DRYER}
StatusTypes ==
    {WASHING_MACHINE, TUMBLE_DRYER, DISHWASHER, OVEN, OVEN_MICROWAVE, HOB_HIGHLIGHT,
     STEAM_OVEN, MICROWAVE, COFFEE_SYSTEM, HOOD, FRIDGE, FREEZER, FRIDGE_FREEZER,
     ROBOT_VACUUM_CLEANER, WASHER_DRYER, DISH_WARMER, HOB_INDUCTION,
     STEAM_OVEN_COMBI, WINE_CABINET, WINE_CONDITIONING_UNIT,
     WINE_STORAGE_CONDITIONING_UNIT, STEAM_OVEN_MICRO, DIALOG_OVEN,
     WINE_CABINET_FREEZER, HOB_INDUCT_EXTR}
ProgramTypes ==
    {WASHING_MACHINE, TUMBLE_DRYER, DISHWASHER, OVEN, OVEN_MICROWAVE, STEAM_OVEN,
     MICROWAVE, COFFEE_SYSTEM, ROBOT_VACUUM_CLEANER, WASHER_DRYER, STEAM_OVEN_COMBI,
     STEAM_OVEN_MICRO, DIALOG_OVEN}
TimeTypes ==
    {WASHING_MACHINE, TUMBLE_DRYER, DISHWASHER, OVEN, OVEN_MICROWAVE, STEAM_OVEN,
     MICROWAVE, WASHER_DRYER, STEAM_OVEN_COMBI, STEAM_OVEN_MICRO, DIALOG_OVEN}
WaterTypes == {WASHING_MACHINE, DISHWASHER, WASHER_DRYER}
EnergyTypes == {WASHING_MACHINE, TUMBLE_DRYER, DISHWASHER, WASHER_DRYER}
CoreTemperatureTypes == {OVEN, OVEN_MICROWAVE, STEAM_OVEN_COMBI}
HobTypes == {HOB_INDUCTION, HOB_HIGHLIGHT, HOB_INDUCT_EXTR}

StatusExtraAttributes ==
    {"Serial no", "Raw value", "Appliance", "Manufacturer", "Model", "HW version",
     "SW version"}

SENSOR_TYPES ==
    << MieleSensorDefinition(TemperatureTypes, "temperature",
           "state|temperature|0|value_raw", NoTag, NoTag, "div100", FALSE, {}),
       MieleSensorDefinition(TemperatureTypes, "temperature2",
           "state|temperature|1|value_raw", NoTag, NoTag, "div100", FALSE, {}),
       MieleSensorDefinition(TemperatureTypes, "temperature3",
           "state|temperature|2|value_raw", NoTag, NoTag, "div100", FALSE, {}),
       MieleSensorDefinition(TargetTemperatureTypes, "targetTemperature",
           "state|targetTemperature|0|value_raw", NoTag, NoTag, "int_div100", FALSE, {}),
       MieleSensorDefinition(TargetTemperatureTypes, "targetTemperature2",
           "state|targetTemperature|1|value_raw", NoTag, NoTag, "int_div100", FALSE, {}),
       MieleSensorDefinition(TargetTemperatureTypes, "targetTemperature3",
           "state|targetTemperature|2|value_raw", NoTag, NoTag, "int_div100", FALSE, {}),
       MieleSensorDefinition(StatusTypes, "stateStatus",
           "state|status|value_raw", NoTag, NoTag, "STATE_STATUS", FALSE,
           StatusExtraAttributes),
       MieleSensorDefinition(ProgramTypes, "stateProgramId",
           "state|ProgramID|value_raw", NoTag, "state|ProgramID|value_localized",
           "STATE_PROGRAM_ID", TRUE, {"Raw value"}),
       MieleSensorDefinition(ProgramTypes, "stateProgramType",
           "state|programType|value_raw", NoTag, "state|programType|value_localized",
           "STATE_PROGRAM_TYPE", FALSE, {"Raw value"}),
       MieleSensorDefinition(ProgramTypes, "stateProgramPhase",
           "state|programPhase|value_raw", NoTag, "state|programPhase|value_localized",
           "STATE_PROGRAM_PHASE", FALSE, {"Raw value"}),
       MieleSensorDefinition({WASHING_MACHINE, WASHER_DRYER}, "stateSpinningSpeed",
           "state|spinningSpeed|value_raw", NoTag, NoTag, NoTag, FALSE, {}),
       MieleSensorDefinition({WASHER_DRYER, TUMBLE_DRYER}, "stateDryingStep",
           "state|dryingStep|value_raw", NoTag, "state|dryingStep|value_localized",
           "STATE_DRYING_STEP", FALSE, {"Raw value"}),
       MieleSensorDefinition(TimeTypes \cup {ROBOT_VACUUM_CLEANER}, "stateRemainingTime",
           "state|remainingTime|0", "state|remainingTime|1", NoTag, NoTag, FALSE, {}),
       MieleSensorDefinition(TimeTypes, "stateRemainingTimeAbs",
           "state|remainingTime|0", "state|remainingTime|1", NoTag, NoTag, FALSE, {}),
       MieleSensorDefinition(TimeTypes, "stateStartTime",
           "state|startTime|0", "state|startTime|1", NoTag, NoTag, FALSE, {}),
       MieleSensorDefinition(TimeTypes, "stateStartTimeAbs",
           "state|startTime|0", "state|startTime|1", NoTag, NoTag, FALSE, {}),
       MieleSensorDefinition(TimeTypes, "stateElapsedTime",
           "state|elapsedTime|0", "state|elapsedTime|1", NoTag, NoTag, FALSE, {}),
       MieleSensorDefinition(TimeTypes, "stateElapsedTimeAbs",
           "state|elapsedTime|0", "state|elapsedTime|1", NoTag, NoTag, FALSE, {}),
       MieleSensorDefinition(WaterTypes, "stateCurrentWaterConsumption",
           "state|ecoFeedback|currentWaterConsumption|value", NoTag, NoTag, NoTag,
           FALSE, {}),
       MieleSensorDefinition(EnergyTypes, "stateCurrentEnergyConsumption",
           "state|ecoFeedback|currentEnergyConsumption|value", NoTag, NoTag, NoTag,
           FALSE, {}),
       MieleSensorDefinition(WaterTypes, "stateWaterForecast",
           "state|ecoFeedback|waterForecast", NoTag, NoTag, "mul100", FALSE, {}),
       MieleSensorDefinition(EnergyTypes, "stateEnergyForecast",
           "state|ecoFeedback|energyForecast", NoTag, NoTag, "mul100", FALSE, {}),
       MieleSensorDefinition({ROBOT_VACUUM_CLEANER}, "batteryLevel",
           "state|batteryLevel", NoTag, NoTag, NoTag, FALSE, {}),
       MieleSensorDefinition(CoreTemperatureTypes, "coreTemperature",
           "state|coreTemperature|0|value_raw", NoTag, NoTag, "div100", FALSE, {}),
       MieleSensorDefinition(CoreTemperatureTypes, "coreTargetTemperature",
           "state|coreTargetTemperature|0|value_raw", NoTag, NoTag, "div100", FALSE, {}),
       MieleSensorDefinition(HobTypes, "plateStep",
           "state|plateStep|0|value_raw", NoTag, "state|plateStep|0|value_localized",
           NoTag, FALSE, {}),
       MieleSensorDefinition(HobTypes, "plateStep1",
           "state|plateStep|1|value_raw", NoTag, "state|plateStep|1|value_localized",
           NoTag, FALSE, {}),
       MieleSensorDefinition(HobTypes, "plateStep2",
           "state|plateStep|2|value_raw", NoTag, "state|plateStep|2|value_localized",
           NoTag, FALSE, {}),
       MieleSensorDefinition(HobTypes, "plateStep3",
           "state|plateStep|3|value_raw", NoTag, "state|plateStep|3|value_localized",
           NoTag, FALSE, {}),
       MieleSensorDefinition(HobTypes, "plateStep4",
           "state|plateStep|4|value_raw", NoTag, "state|plateStep|4|value_localized",
           NoTag, FALSE, {}),
       MieleSensorDefinition(HobTypes, "plateStep5",
           "state|plateStep|5|value_raw", NoTag, "state|plateStep|5|value_localized",
           NoTag, FALSE, {}) >>

Desc(i) == SENSOR_TYPES[i]

----------------------------------------------------------------------------
(* Translation tables of .const (STATE_STATUS, STATE_PROGRAM_ID, ...).     *)
(* Their contents are not part of sensor.py; a small sample of each table  *)
(* stands for it.  A table is a function from raw codes to display names.  *)

STATE_STATUS ==
    [c \in {STATE_STATUS_OFF, STATE_STATUS_ON, STATE_STATUS_PROGRAMMED,
            STATE_STATUS_WAITING_TO_START, STATUS_RUNNING,
            STATE_STATUS_PROGRAM_ENDED, STATE_STATUS_IDLE, STATE_STATUS_SERVICE,
            STATE_STATUS_NOT_CONNECTED} |->
        CASE c = STATE_STATUS_OFF -> "off"
          [] c = STATE_STATUS_ON -> "on"
          [] c = STATE_STATUS_PROGRAMMED -> "programmed"
          [] c = STATE_STATUS_WAITING_TO_START -> "waiting_to_start"
          [] c = STATUS_RUNNING -> "running"
          [] c = STATE_STATUS_PROGRAM_ENDED -> "program_ended"
          [] c = STATE_STATUS_IDLE -> "idle"
          [] c = STATE_STATUS_SERVICE -> "service"
          [] OTHER -> "not_connected"]

\* per appliance type; types without a table get the empty one (.get(t, {}))
STATE_PROGRAM_ID(t) ==
    CASE t = COFFEE_SYSTEM -> (5 :> "espresso" @@ 6 :> "coffee")
      [] t = DISHWASHER -> (5 :> "eco" @@ 6 :> "intensive")
      [] t = ROBOT_VACUUM_CLEANER -> (5 :> "auto")
      [] OTHER -> <<>>

STATE_PROGRAM_TYPE ==
    (0 :> "normal_operation_mode" @@ 1 :> "own_program" @@ 2 :> "automatic_program")

STATE_PROGRAM_PHASE == (5 :> "main_wash" @@ 6 :> "rinse")

STATE_DRYING_STEP == (0 :> "extra_dry" @@ 1 :> "normal_plus")

\* dict.get(x, x) on a table: the display name, or the raw value itself
TableGet(table, x) ==
    CASE x.t = "int" -> IF x.i \in DOMAIN table THEN StrV(table[x.i]) ELSE x
      [] x.t = "code" -> IF x.c \in DOMAIN table THEN StrV(table[x.c]) ELSE x
      [] OTHER -> x

\* dict.values() of a table
TableValues(table) == {StrV(table[k]) : k \in DOMAIN table}

----------------------------------------------------------------------------
(* The convert, available_states lambdas of SENSOR_TYPES *)

\* variant: the quotient is rounded down
IntDiv100_Floor(x) == x \div 100

\* int(x / 100.0): truncation toward zero
IntDiv100(x) == IF x >= 0 THEN x \div 100 ELSE -((-x) \div 100)

\* description.convert(x, t)
Convert(convert, x, t) ==
    CASE convert = "div100" ->
            IF IsInt(x) THEN FloatV(x.i) ELSE Raised("TypeError")
      [] convert = "int_div100" ->
            IF IsInt(x) THEN IntV(IntDiv100(x.i)) ELSE Raised("TypeError")
      [] convert = "mul100" ->
            IF IsInt(x) THEN FloatV(x.i * 100 * 100) ELSE Raised("TypeError")
      [] convert = "STATE_STATUS" -> TableGet(STATE_STATUS, x)
      [] convert = "STATE_PROGRAM_ID" -> TableGet(STATE_PROGRAM_ID(t), x)
      [] convert = "STATE_PROGRAM_TYPE" -> TableGet(STATE_PROGRAM_TYPE, x)
      [] convert = "STATE_PROGRAM_PHASE" -> TableGet(STATE_PROGRAM_PHASE, x)
      [] convert = "STATE_DRYING_STEP" -> TableGet(STATE_DRYING_STEP, x)
      [] OTHER -> Raised("TypeError")

\* description.available_states(t): only stateProgramId defines it
AvailableStates(desc, t) ==
    IF desc.available_states THEN TableValues(STATE_PROGRAM_ID(t)) ELSE {}

----------------------------------------------------------------------------
(* Python dict access and time formatting *)

\* d[k]
GetItem(d, k) == IF k \in DOMAIN d THEN d[k] ELSE Raised("KeyError")

\* d.get(k)
Get(d, k) == IF k \in DOMAIN d THEN d[k] ELSE None

MinutesPerDay == 1440

Pad2(n) == IF n < 10 THEN "0" \o ToString(n) ELSE ToString(n)

\* (now + timedelta(minutes=m)).strftime("%H:%M"), now as minute of the day
StrFTime(clock, m) ==
    LET tod == (clock + m) % MinutesPerDay
    IN  StrV(Pad2(tod \div 60) \o ":" \o Pad2(tod % 60))

\* data[tag] * 60 + data[tag1]
CompositeMinutes(d, desc) ==
    LET a == GetItem(d, desc.data_tag)
        b == GetItem(d, desc.data_tag1)
    IN  IF IsRaised(a) THEN a
        ELSE IF ~IsInt(a) THEN Raised("TypeError")
        ELSE IF IsRaised(b) THEN b
        ELSE IF ~IsInt(b) THEN Raised("TypeError")
        ELSE IntV(a.i * 60 + b.i)

\* self._get_custom_mapped_value(raw_value); the per-entity configuration is
\* looked up under the entity's id
GetCustomMappedValue(conf, entity_id, raw_value) ==
    IF /\ entity_id \in DOMAIN conf
       /\ IsInt(raw_value)
       /\ raw_value.i \in DOMAIN conf[entity_id]
    THEN StrV(conf[entity_id][raw_value.i])
    ELSE None

----------------------------------------------------------------------------
(* MieleSensor.native_value.  An entity e is a record holding _ent, the    *)
(* index of its description in SENSOR_TYPES, _attr_unique_id,              *)
(* _available_states and the two caches.  The operator returns what the    *)
(* read returns (or raises) together with the caches and the id_log it     *)
(* leaves behind.                                                          *)

Outcome(ret, elapsed, started, log) ==
    [ret |-> ret, elapsed |-> elapsed, started |-> started, log |-> log]

\* variant: the minute sensors store what they return in the elapsed cache
ReadMinutes_WritesCache(e, d, log) ==
    Outcome(CompositeMinutes(d, Desc(e.description)),
            CompositeMinutes(d, Desc(e.description)), e.last_started_time_reported, log)

\* lines 838-845: stateRemainingTime, stateStartTime
ReadMinutes(e, d, log) ==
    Outcome(CompositeMinutes(d, Desc(e.description)),
            e.last_elapsed_time_reported, e.last_started_time_reported, log)

\* variant: a zero duration is formatted like any other
ReadTimeAbs_NoZeroCheck(e, d, clock, log) ==
    LET mins == CompositeMinutes(d, Desc(e.description))
        ret == IF IsRaised(mins) THEN mins ELSE StrFTime(clock, mins.i)
    IN  Outcome(ret, e.last_elapsed_time_reported, e.last_started_time_reported, log)

\* lines 847-866: stateRemainingTimeAbs, stateStartTimeAbs
ReadTimeAbs(e, d, clock, log) ==
    LET mins == CompositeMinutes(d, Desc(e.description))
        ret == IF IsRaised(mins) THEN mins
               ELSE IF mins.i = 0 THEN None
               ELSE StrFTime(clock, mins.i)
    IN  Outcome(ret, e.last_elapsed_time_reported, e.last_started_time_reported, log)

\* variant: the elapsed minutes never freeze
ReadElapsedTime_NoFreeze(e, d, log) ==
    LET mins == CompositeMinutes(d, Desc(e.description))
    IN  IF IsRaised(mins)
        THEN Outcome(mins, e.last_elapsed_time_reported,
                     e.last_started_time_reported, log)
        ELSE Outcome(mins, mins, e.last_started_time_reported, log)

\* lines 868-882: stateElapsedTime
ReadElapsedTime(e, d, log) ==
    LET mins == CompositeMinutes(d, Desc(e.description))
        status == GetItem(d, status_key_raw)
    IN  IF IsRaised(mins)
        THEN Outcome(mins, e.last_elapsed_time_reported,
                     e.last_started_time_reported, log)
        ELSE IF IsRaised(status)
        THEN Outcome(status, e.last_elapsed_time_reported,
                     e.last_started_time_reported, log)
        ELSE IF status = CodeV(STATE_STATUS_PROGRAM_ENDED)
        THEN Outcome(e.last_elapsed_time_reported, e.last_elapsed_time_reported,
                     e.last_started_time_reported, log)
        ELSE Outcome(mins, mins, e.last_started_time_reported, log)

\* variant: the started-at sensor never freezes
ReadElapsedTimeAbs_NoFreeze(e, d, clock, log) ==
    LET mins == CompositeMinutes(d, Desc(e.description))
    IN  IF IsRaised(mins) \/ mins.i = 0
        THEN Outcome(IF IsRaised(mins) THEN mins ELSE None,
                     e.last_elapsed_time_reported, e.last_started_time_reported, log)
        ELSE Outcome(StrFTime(clock, -mins.i), e.last_elapsed_time_reported,
                     StrFTime(clock, -mins.i), log)

\* variant: the freeze is decided before the zero duration
ReadElapsedTimeAbs_FreezeFirst(e, d, clock, log) ==
    LET mins == CompositeMinutes(d, Desc(e.description))
        status == GetItem(d, status_key_raw)
        keep(ret) == Outcome(ret, e.last_elapsed_time_reported,
                             e.last_started_time_reported, log)
    IN  IF IsRaised(mins) THEN keep(mins)
        ELSE IF IsRaised(status) THEN keep(status)
        ELSE IF status = CodeV(STATE_STATUS_PROGRAM_ENDED)
        THEN keep(e.last_started_time_reported)
        ELSE IF mins.i = 0 THEN keep(None)
        ELSE LET started_time == StrFTime(clock, -mins.i)
             IN  Outcome(started_time, e.last_elapsed_time_reported, started_time, log)

\* lines 884-910: stateElapsedTimeAbs
ReadElapsedTimeAbs(e, d, clock, log) ==
    LET mins == CompositeMinutes(d, Desc(e.description))
        status == GetItem(d, status_key_raw)
        keep(ret) == Outcome(ret, e.last_elapsed_time_reported,
                             e.last_started_time_reported, log)
    IN  IF IsRaised(mins) THEN keep(mins)
        ELSE IF mins.i = 0 THEN keep(None)
        ELSE IF IsRaised(status) THEN keep(status)
        ELSE IF status = CodeV(STATE_STATUS_PROGRAM_ENDED)
        THEN keep(e.last_started_time_reported)
        ELSE LET started_time == StrFTime(clock, -mins.i)
             IN  Outcome(started_time, e.last_elapsed_time_reported, started_time, log)

\* variant: a zone reports its raw value
ReadPlateStep_Raw(e, d, log) ==
    LET desc == Desc(e.description)
        ret == IF Get(d, desc.data_tag) = None THEN IntV(0)
               ELSE GetItem(d, desc.data_tag)
    IN  Outcome(ret, e.last_elapsed_time_reported, e.last_started_time_reported, log)

\* lines 912-928: plateStep, plateStep1 .. plateStep5
ReadPlateStep(e, d, log) ==
    LET desc == Desc(e.description)
        ret == IF Get(d, desc.data_tag) = None THEN IntV(0)
               ELSE GetItem(d, desc.data_tag_loc)
    IN  Outcome(ret, e.last_elapsed_time_reported, e.last_started_time_reported, log)

\* variant: nothing is ever dropped from the buffer
PopWhileFull_Never(log) == log

\* lines 938-939: while len(id_log) >= 500: id_log.pop()
RECURSIVE PopWhileFull(_)
PopWhileFull(log) ==
    IF Len(log) >= IdLogCapacity THEN PopWhileFull(SubSeq(log, 1, Len(log) - 1))
    ELSE log

\* variant: the diagnostic record is written for every key
LogProgramIds_AllKeys(e, d, level, log) ==
    LET desc == Desc(e.description)
        appliance == GetItem(d, type_key)
        raw == GetItem(d, desc.data_tag)
        localized == GetItem(d, desc.data_tag_loc)
        popped == PopWhileFull(log)
    IN  IF ~(level <= INFO) THEN [log |-> log, raised |-> None]
        ELSE IF IsRaised(appliance) THEN [log |-> popped, raised |-> appliance]
        ELSE IF IsRaised(raw) THEN [log |-> popped, raised |-> raw]
        ELSE IF IsRaised(localized) THEN [log |-> popped, raised |-> localized]
        ELSE [log |-> Append(popped, [appliance |-> appliance, key |-> desc.key,
                                      raw |-> raw, localized |-> localized]),
              raised |-> None]

\* lines 930-954: the diagnostic record of the program id/phase/type sensors.
\* Returns the log left behind and the exception the dict literal raised
\* (None when the record was appended or nothing was to be logged).
LogProgramIds(e, d, level, log) ==
    LET desc == Desc(e.description)
        appliance == GetItem(d, type_key)
        raw == GetItem(d, desc.data_tag)
        localized == GetItem(d, desc.data_tag_loc)
        popped == PopWhileFull(log)
    IN  IF ~(level <= INFO) \/
           desc.key \notin {"stateProgramPhase", "stateProgramId", "stateProgramType"}
        THEN [log |-> log, raised |-> None]
        ELSE IF IsRaised(appliance) THEN [log |-> popped, raised |-> appliance]
        ELSE IF IsRaised(raw) THEN [log |-> popped, raised |-> raw]
        ELSE IF IsRaised(localized) THEN [log |-> popped, raised |-> localized]
        ELSE [log |-> Append(popped, [appliance |-> appliance, key |-> desc.key,
                                      raw |-> raw, localized |-> localized]),
              raised |-> None]

\* the statuses of lines 964-971
NotRunningStatuses ==
    {STATE_STATUS_ON, STATE_STATUS_OFF, STATE_STATUS_PROGRAMMED,
     STATE_STATUS_WAITING_TO_START, STATE_STATUS_IDLE, STATE_STATUS_SERVICE}

\* variant: the override also applies to a disconnected appliance
ConsumptionIsZero_AlsoNotConnected(desc, state) ==
    /\ desc.key \in {"stateCurrentEnergyConsumption", "stateCurrentWaterConsumption"}
    /\ state \in {CodeV(s) : s \in NotRunningStatuses \cup {STATE_STATUS_NOT_CONNECTED}}

\* lines 961-972: the consumption override
ConsumptionIsZero(desc, state) ==
    /\ desc.key \in {"stateCurrentEnergyConsumption", "stateCurrentWaterConsumption"}
    /\ state \in {CodeV(s) : s \in NotRunningStatuses}

\* variant: only one of the two sentinel codes is recognised
IsSentinel_OnlyOne(raw) == raw = IntV(-32766)

\* lines 979-984: the two sentinel codes
IsSentinel(raw) == raw = IntV(-32766) \/ raw = IntV(-32768)

\* variant: zero is taken for a program
IsNoProgram_Negative(desc, raw) ==
    /\ desc.key \in {"stateProgramId", "stateProgramPhase"}
    /\ IsInt(raw) /\ raw.i < 0

\* lines 985-989: program id and phase report "no program" as <= 0
IsNoProgram(desc, raw) ==
    /\ desc.key \in {"stateProgramId", "stateProgramPhase"}
    /\ IsInt(raw) /\ raw.i <= 0

\* variant: any configured override is used
UseCustomMapped_Unchecked(custom_mapped_value, available_states) ==
    custom_mapped_value # None

\* lines 994-1002: the configured override, if it is a valid state
UseCustomMapped(custom_mapped_value, available_states) ==
    /\ custom_mapped_value # None
    /\ custom_mapped_value \in available_states

\* lines 956-1008: the generic path, after the diagnostic block
ReadGeneric(e, d, conf) ==
    LET desc == Desc(e.description)
        state == GetItem(d, status_key_raw)
        raw == Get(d, desc.data_tag)
        custom_mapped_value == GetCustomMappedValue(conf, e.unique_id, raw)
    IN  IF IsRaised(state) THEN state
        ELSE IF ConsumptionIsZero(desc, state) THEN IntV(0)
        ELSE IF raw = None THEN None
        ELSE IF IsSentinel(raw) THEN None
        ELSE IF IsNoProgram(desc, raw) THEN None
        ELSE IF desc.convert = NoTag THEN raw
        ELSE IF UseCustomMapped(custom_mapped_value, e.available_states)
        THEN custom_mapped_value
        ELSE IF IsRaised(GetItem(d, type_key_raw)) THEN GetItem(d, type_key_raw)
        ELSE Convert(desc.convert, raw, GetItem(d, type_key_raw).c)

\* lines 835-1008
NativeValue(e, d, clock, level, conf, log) ==
    LET key == Desc(e.description).key
        logged == LogProgramIds(e, d, level, log)
    IN  IF key \in {"stateRemainingTime", "stateStartTime"} THEN ReadMinutes(e, d, log)
        ELSE IF key \in {"stateRemainingTimeAbs", "stateStartTimeAbs"}
        THEN ReadTimeAbs(e, d, clock, log)
        ELSE IF key = "stateElapsedTime" THEN ReadElapsedTime(e, d, log)
        ELSE IF key = "stateElapsedTimeAbs" THEN ReadElapsedTimeAbs(e, d, clock, log)
        ELSE IF key \in {"plateStep", "plateStep1", "plateStep2", "plateStep3",
                         "plateStep4", "plateStep5"}
        THEN ReadPlateStep(e, d, log)
        ELSE IF logged.raised # None
        THEN Outcome(logged.raised, e.last_elapsed_time_reported,
                     e.last_started_time_reported, logged.log)
        ELSE Outcome(ReadGeneric(e, d, conf), e.last_elapsed_time_reported,
                     e.last_started_time_reported, logged.log)

\* the extra_attributes dicts as SENSOR_TYPES defines them: every name -> 0
ExtraAttributesAtLoad ==
    [j \in {k \in DOMAIN SENSOR_TYPES : Desc(k).extra_attributes # {}} |->
        [name \in Desc(j).extra_attributes |-> IntV(0)]]

\* data_tag.replace("_raw", "_localized"), for the data tags of the
\* definitions that have extra attributes
ReplaceRawLocalized(data_tag) ==
    CASE data_tag = "state|status|value_raw" -> "state|status|value_localized"
      [] data_tag = "state|ProgramID|value_raw" -> "state|ProgramID|value_localized"
      [] data_tag = "state|programType|value_raw" -> "state|programType|value_localized"
      [] data_tag = "state|programPhase|value_raw" -> "state|programPhase|value_localized"
      [] data_tag = "state|dryingStep|value_raw" -> "state|dryingStep|value_localized"
      [] OTHER -> data_tag

\* attr[name] = value for each item whose test holds, in turn, until a
\* value raises
RECURSIVE AssignItems(_, _, _)
AssignItems(attr, items, k) ==
    IF k > Len(items) THEN [attr |-> attr, raised |-> None]
    ELSE IF ~items[k].test THEN AssignItems(attr, items, k + 1)
    ELSE IF IsRaised(items[k].value) THEN [attr |-> attr, raised |-> items[k].value]
    ELSE AssignItems((items[k].name :> items[k].value) @@ attr, items, k + 1)

\* lines 1025-1063: MieleSensor.extra_state_attributes.  dicts holds the
\* extra_attributes dict of every definition that has one; attr is the
\* definition's own dict, not a copy.  Returns what the read returns and the
\* dicts it leaves in the definitions
ExtraStateAttributes(e, d, dicts) ==
    LET desc == Desc(e.description)
        attr == dicts[e.description]
        item(test, name, value) == [test |-> test, name |-> name, value |-> value]
        has(name) == name \in DOMAIN attr
        items ==
            << item(has("Raw value"), "Raw value", GetItem(d, desc.data_tag)),
               item(has("Raw value"), "Localized",
                    GetItem(d, ReplaceRawLocalized(desc.data_tag))),
               item(has("Serial no"), "Serial no", StrV(e.ent)),
               item(has("Appliance"), "Appliance", GetItem(d, type_key)),
               item(has("Manufacturer"), "Manufacturer", CodeV(MANUFACTURER)),
               item(has("Model"), "Model", GetItem(d, "ident|deviceIdentLabel|techType")),
               item(has("HW version"), "HW version",
                    GetItem(d, "ident|xkmIdentLabel|techType")),
               item(has("SW version"), "SW version",
                    GetItem(d, "ident|xkmIdentLabel|releaseVersion")) >>
        assigned == AssignItems(attr, items, 1)
    IN  IF e.description \notin DOMAIN dicts THEN [ret |-> None, dicts |-> dicts]
        ELSE [ret |-> IF assigned.raised # None THEN assigned.raised
                      ELSE [t |-> "dict", d |-> assigned.attr],
              dicts |-> [dicts EXCEPT ![e.description] = assigned.attr]]

\* variant: the coordinator's last poll is not consulted
Available_IgnoresPoll(e, d, update_success) ==
    LET status == GetItem(d, status_key_raw)
    IN  IF Desc(e.description).key = "stateStatus" THEN BoolV(TRUE)
        ELSE IF IsRaised(status) THEN status
        ELSE BoolV(status # CodeV(STATE_STATUS_NOT_CONNECTED))

\* lines 1010-1023: MieleSensor.available
Available(e, d, update_success) ==
    LET status == GetItem(d, status_key_raw)
    IN  IF Desc(e.description).key = "stateStatus" THEN BoolV(TRUE)
        ELSE IF ~update_success THEN BoolV(FALSE)
        ELSE IF IsRaised(status) THEN status
        ELSE BoolV(status # CodeV(STATE_STATUS_NOT_CONNECTED))

----------------------------------------------------------------------------
(* Entity construction and platform setup *)

\* variant: the unique id is the definition key alone
MieleSensor_KeyOnly(coordinator_data, idx, ent, description) ==
    [idx |-> idx,
     ent |-> ent,
     description |-> description,
     unique_id |-> Desc(description).key,
     available_states |->
         AvailableStates(Desc(description), coordinator_data[ent][type_key_raw].c),
     last_elapsed_time_reported |-> None,
     last_started_time_reported |-> None]

\* lines 791-833: MieleSensor.__init__ (idx, ent, description); the device
\* info block only copies identification strings and is left out
MieleSensor(coordinator_data, idx, ent, description) ==
    [idx |-> idx,
     ent |-> ent,
     description |-> description,
     unique_id |-> Desc(description).key \o "-" \o ent,
     available_states |->
         AvailableStates(Desc(description), coordinator_data[ent][type_key_raw].c),
     last_elapsed_time_reported |-> None,
     last_started_time_reported |-> None]

\* the order in which a dict of appliances is iterated (insertion order)
ApplianceOrder == <<"000111", "000222">>

ApplianceKeys(coordinator_data) ==
    SelectSeq(ApplianceOrder, LAMBDA a : a \in DOMAIN coordinator_data)

\* variant: only the first appliance's type is looked at
TypeMatches_FirstAppliance(coordinator_data, ent, definition) ==
    coordinator_data[ApplianceKeys(coordinator_data)[1]][type_key_raw].c
        \in definition.types

\* line 778: the definition applies to the appliance
TypeMatches(coordinator_data, ent, definition) ==
    coordinator_data[ent][type_key_raw].c \in definition.types

\* lines 775-783: async_setup_entry builds the entity list, appliance by
\* appliance (enumerate) and, for each, in catalog order
SetupEntities(coordinator_data) ==
    LET keys == ApplianceKeys(coordinator_data)
        n == Len(SENSOR_TYPES)
        pairs == [k \in 1 .. Len(keys) * n |->
                     [idx |-> (k - 1) \div n, def |-> ((k - 1) % n) + 1]]
        matching == SelectSeq(pairs, LAMBDA p :
                        TypeMatches(coordinator_data, keys[p.idx + 1], Desc(p.def)))
    IN  [k \in 1 .. Len(matching) |->
            MieleSensor(coordinator_data, matching[k].idx,
                        keys[matching[k].idx + 1], matching[k].def)]

----------------------------------------------------------------------------
(* The coordinator's snapshots.  A poll replaces every appliance's flat    *)
(* dict.  The snapshots polled are drawn from a family described by three  *)
(* parameters: the status code, an index choosing the three composite      *)
(* times, and the value of the appliance's raw fields (or their absence).  *)

MaxHours == 1
MaxRaw == 6
MaxTicks == 1

Missing == [t |-> "missing"]

DefIndexes == 1 .. Len(SENSOR_TYPES)

\* hours/minutes pairs <<0,0>>, <<0,30>>, <<1,0>>, <<1,30>>, ...
NTimes == 2 * (MaxHours + 1)
TimeOf(k) == << (k % NTimes) \div 2, ((k % NTimes) % 2) * 30 >>

StatusCodes ==
    {STATE_STATUS_OFF, STATE_STATUS_ON, STATE_STATUS_PROGRAMMED,
     STATE_STATUS_WAITING_TO_START, STATUS_RUNNING, STATE_STATUS_PROGRAM_ENDED,
     STATE_STATUS_IDLE, STATE_STATUS_SERVICE, STATE_STATUS_NOT_CONNECTED}

RawInts == {-32768, -32766, -1, 0} \cup (5 .. MaxRaw)
RawValues == {Missing, None} \cup {IntV(i) : i \in RawInts}

\* the single-field definitions (not the status itself) of an appliance type
FieldDefs(type) ==
    {j \in DefIndexes : /\ type \in Desc(j).types
                        /\ Desc(j).data_tag1 = NoTag
                        /\ Desc(j).key # "stateStatus"}
\* computed once per appliance type
FieldTags ==
    [type \in StatusTypes \cup {"UNKNOWN_TYPE"} |->
        [raw |-> {Desc(j).data_tag : j \in FieldDefs(type)},
         loc |-> {Desc(j).data_tag_loc : j \in FieldDefs(type)} \ {NoTag}]]
RawTags(type) == FieldTags[type].raw
LocTags(type) == FieldTags[type].loc

IdentTags ==
    {type_key, type_key_raw, "ident|deviceIdentLabel|techType",
     "ident|xkmIdentLabel|techType", "ident|xkmIdentLabel|releaseVersion"}
StatusTags == {status_key_raw, "state|status|value_localized"}
TimeTags ==
    {"state|remainingTime|0", "state|remainingTime|1", "state|startTime|0",
     "state|startTime|1", "state|elapsedTime|0", "state|elapsedTime|1"}

Localized(rv) == IF IsInt(rv) THEN StrV("text " \o ToString(rv.i)) ELSE StrV("")

\* the flat dict of an appliance of the given type
MkData(type, p) ==
    LET fields == IF p.rv = Missing THEN {} ELSE RawTags(type) \cup LocTags(type)
    IN  [tag \in IdentTags \cup StatusTags \cup TimeTags \cup fields |->
            CASE tag = type_key_raw -> CodeV(type)
              [] tag = type_key -> StrV(type)
              [] tag \in IdentTags \ {type_key, type_key_raw} -> StrV("label")
              [] tag = status_key_raw -> CodeV(p.status)
              [] tag = "state|status|value_localized" -> StrV(STATE_STATUS[p.status])
              [] tag = "state|remainingTime|0" -> IntV(TimeOf(p.ti)[1])
              [] tag = "state|remainingTime|1" -> IntV(TimeOf(p.ti)[2])
              [] tag = "state|startTime|0" -> IntV(TimeOf(p.ti + 1)[1])
              [] tag = "state|startTime|1" -> IntV(TimeOf(p.ti + 1)[2])
              [] tag = "state|elapsedTime|0" -> IntV(TimeOf(p.ti + 2)[1])
              [] tag = "state|elapsedTime|1" -> IntV(TimeOf(p.ti + 2)[2])
              [] tag \in LocTags(type) -> Localized(p.rv)
              [] OTHER -> p.rv]

Params(statuses, tis, rvs) ==
    {[status |-> st, ti |-> ti, rv |-> rv] : st \in statuses, ti \in tis, rv \in rvs}

\* the snapshot every behaviour starts from
DefaultParams == [status |-> STATUS_RUNNING, ti |-> 1, rv |-> IntV(5)]

GenericParams ==
    Params({STATUS_RUNNING, STATE_STATUS_OFF, STATE_STATUS_NOT_CONNECTED}, {1},
           RawValues)
TimeParams ==
    Params({STATUS_RUNNING, STATE_STATUS_PROGRAM_ENDED}, 0 .. NTimes - 1, {IntV(5)})
    \cup Params({STATUS_RUNNING}, {1}, {Missing})
ConsumptionParams == Params(StatusCodes, {1}, RawValues)
LogParams == Params({STATUS_RUNNING}, {1}, {Missing, None, IntV(-32768), IntV(5)})
AttributeParams ==
    Params({STATUS_RUNNING, STATE_STATUS_OFF}, {1}, {IntV(5)})
    \cup Params({STATUS_RUNNING}, {1}, {Missing})
\* elapsed times of 0 and 30 minutes, running and ended, no other field
CacheParams ==
    Params({STATUS_RUNNING, STATE_STATUS_PROGRAM_ENDED}, {NTimes - 2, NTimes - 1},
           {Missing})
\* raw temperatures, in hundredths of a degree
TemperatureRaws == {-32768, -32766, -1850, -199, -100, -50, 0, 5, 99, 100, 2350}
TemperatureParams ==
    Params({STATUS_RUNNING, STATE_STATUS_OFF}, {1},
           {Missing} \cup {IntV(v) : v \in TemperatureRaws})

\* hass.data[DOMAIN][CONF_SENSORS]: no overrides, or the same override
\* mapping for every entity of the appliance
NoOverrides == <<>>
Overrides(type, ent) ==
    [uid \in {Desc(j).key \o "-" \o ent : j \in {k \in DefIndexes : type \in Desc(k).types}}
        |-> (-32768 :> "espresso" @@ -1 :> "espresso" @@ 0 :> "espresso"
             @@ 5 :> "coffee" @@ 6 :> "not a program")]

\* every snapshot of the families, built once
AllParams ==
    {DefaultParams} \cup GenericParams \cup TimeParams \cup ConsumptionParams
    \cup LogParams \cup TemperatureParams \cup AttributeParams \cup CacheParams
SnapshotTable ==
    [type \in StatusTypes \cup {"UNKNOWN_TYPE"} |-> [p \in AllParams |-> MkData(type, p)]]
Snapshot(type, p) == SnapshotTable[type][p]

NoResult == [op |-> "none", i |-> 0, ret |-> None]

----------------------------------------------------------------------------
(* Actions *)

\* async_setup_entry
Setup ==
    /\ ~setup_done
    /\ entities' = SetupEntities(data)
    /\ setup_done' = TRUE
    /\ result' = NoResult
    /\ UNCHANGED <<data, last_update_success, now, log_level, conf_sensors, id_log,
                   extra_attributes>>

\* a successful poll of the coordinator: every appliance's dict is replaced
Refresh(family) ==
    \E p \in family :
        /\ data' = [a \in DOMAIN data |-> Snapshot(data[a][type_key_raw].c, p)]
        /\ last_update_success' = TRUE
        /\ result' = NoResult
        /\ UNCHANGED <<now, log_level, conf_sensors, id_log, entities, setup_done,
                       extra_attributes>>

\* a failed poll: the previous data stays
RefreshFailed ==
    /\ last_update_success
    /\ last_update_success' = FALSE
    /\ result' = NoResult
    /\ UNCHANGED <<data, now, log_level, conf_sensors, id_log, entities, setup_done,
                   extra_attributes>>

\* the wall clock advances (20 minutes a step, starting at 23:45)
Tick ==
    /\ (now + MinutesPerDay - 1425) % MinutesPerDay < MaxTicks * 20
    /\ now' = (now + 20) % MinutesPerDay
    /\ result' = NoResult
    /\ UNCHANGED <<data, last_update_success, log_level, conf_sensors, id_log,
                   entities, setup_done, extra_attributes>>

\* the host reads entity i's native_value
ReadNativeValue ==
    \E i \in DOMAIN entities :
        LET e == entities[i]
            out == NativeValue(e, data[e.ent], now, log_level, conf_sensors, id_log)
        IN  /\ entities' = [entities EXCEPT
                               ![i].last_elapsed_time_reported = out.elapsed,
                               ![i].last_started_time_reported = out.started]
            /\ id_log' = out.log
            /\ result' = [op |-> "native_value", i |-> i, ret |-> out.ret]
            /\ UNCHANGED <<data, last_update_success, now, log_level, conf_sensors,
                           setup_done, extra_attributes>>

\* the host reads entity i's available
ReadAvailable ==
    \E i \in DOMAIN entities :
        /\ result' = [op |-> "available", i |-> i,
                      ret |-> Available(entities[i], data[entities[i].ent],
                                        last_update_success)]
        /\ UNCHANGED <<data, last_update_success, now, log_level, conf_sensors,
                       id_log, entities, setup_done, extra_attributes>>

\* the host reads entity i's extra_state_attributes
ReadExtraStateAttributes ==
    \E i \in DOMAIN entities :
        LET out == ExtraStateAttributes(entities[i], data[entities[i].ent],
                                        extra_attributes)
        IN  /\ extra_attributes' = out.dicts
            /\ result' = [op |-> "extra_state_attributes", i |-> i, ret |-> out.ret]
            /\ UNCHANGED <<data, last_update_success, now, log_level, conf_sensors,
                           id_log, entities, setup_done>>

----------------------------------------------------------------------------
(* Specifications *)

\* one appliance of one of the given types, before platform setup
InitWith(types, levels, log) ==
    /\ \E type \in types :
          /\ data = [a \in {ApplianceOrder[1]} |-> Snapshot(type, DefaultParams)]
          /\ conf_sensors \in {NoOverrides, Overrides(type, ApplianceOrder[1])}
    /\ last_update_success = TRUE
    /\ now = 1425
    /\ log_level \in levels
    /\ id_log = log
    /\ entities = <<>>
    /\ setup_done = FALSE
    /\ extra_attributes = ExtraAttributesAtLoad
    /\ result = NoResult

\* generic path and availability: a coffee system, a fridge, a robot vacuum
Init == InitWith({COFFEE_SYSTEM, FRIDGE, ROBOT_VACUUM_CLEANER}, {30}, <<>>)
Next ==
    \/ Setup
    \/ Refresh(GenericParams)
    \/ RefreshFailed
    \/ ReadNativeValue
    \/ ReadAvailable
Spec == Init /\ [][Next]_vars

\* composite times and the freeze caches: a dishwasher, the clock running
InitTime == InitWith({DISHWASHER}, {30}, <<>>)
NextTime ==
    \/ Setup
    \/ Refresh(TimeParams)
    \/ Tick
    \/ ReadNativeValue
SpecTime == InitTime /\ [][NextTime]_vars

\* consumption sensors: a dishwasher in every status
InitConsumption == InitWith({DISHWASHER}, {30}, <<>>)
NextConsumption ==
    \/ Setup
    \/ Refresh(ConsumptionParams)
    \/ ReadNativeValue
SpecConsumption == InitConsumption /\ [][NextConsumption]_vars

\* the diagnostic buffer: a coffee system at every logging level, the
\* buffer one record short of its capacity
OldRecord ==
    [appliance |-> StrV(COFFEE_SYSTEM), key |-> "stateProgramId", raw |-> IntV(6),
     localized |-> Localized(IntV(6))]
InitLog ==
    InitWith({COFFEE_SYSTEM}, LogLevels, [k \in 1 .. IdLogCapacity - 1 |-> OldRecord])
NextLog ==
    \/ Setup
    \/ Refresh(LogParams)
    \/ ReadNativeValue
SpecLog == InitLog /\ [][NextLog]_vars

\* the cooking zones: an induction hob
InitHob == InitWith({HOB_INDUCTION}, {30}, <<>>)
NextHob ==
    \/ Setup
    \/ Refresh(GenericParams)
    \/ ReadNativeValue
SpecHob == InitHob /\ [][NextHob]_vars

\* temperatures: a fridge and an oven
InitTemperature == InitWith({FRIDGE, OVEN}, {30}, <<>>)
NextTemperature ==
    \/ Setup
    \/ Refresh(TemperatureParams)
    \/ ReadNativeValue
SpecTemperature == InitTemperature /\ [][NextTemperature]_vars

\* the attributes of the status sensor: a coffee system and a fridge
InitAttributes == InitWith({COFFEE_SYSTEM, FRIDGE}, {30}, <<>>)
NextAttributes ==
    \/ Setup
    \/ Refresh(AttributeParams)
    \/ ReadNativeValue
    \/ ReadAvailable
    \/ ReadExtraStateAttributes
SpecAttributes == InitAttributes /\ [][NextAttributes]_vars

\* the freeze caches under every property read: a dishwasher
InitCaches ==
    /\ data = [a \in {ApplianceOrder[1]} |->
                  Snapshot(DISHWASHER, [status |-> STATUS_RUNNING, ti |-> NTimes - 1,
                                        rv |-> Missing])]
    /\ conf_sensors = NoOverrides
    /\ last_update_success = TRUE
    /\ now = 1425
    /\ log_level = 30
    /\ id_log = <<>>
    /\ entities = <<>>
    /\ setup_done = FALSE
    /\ extra_attributes = ExtraAttributesAtLoad
    /\ result = NoResult
NextCaches ==
    \/ Setup
    \/ Refresh(CacheParams)
    \/ ReadNativeValue
    \/ ReadAvailable
    \/ ReadExtraStateAttributes
SpecCaches == InitCaches /\ [][NextCaches]_vars

\* platform setup over one or two appliances of any type
SetupTypes ==
    {WASHING_MACHINE, TUMBLE_DRYER, DISHWASHER, OVEN, COFFEE_SYSTEM, HOOD, FRIDGE,
     ROBOT_VACUUM_CLEANER, WASHER_DRYER, HOB_INDUCTION, "UNKNOWN_TYPE"}
InitSetup ==
    /\ \E keys \in {{ApplianceOrder[1]}, {ApplianceOrder[2]},
                    {ApplianceOrder[1], ApplianceOrder[2]}} :
          data \in [keys -> {Snapshot(type, DefaultParams) : type \in SetupTypes}]
    /\ conf_sensors = NoOverrides
    /\ last_update_success = TRUE
    /\ now = 1425
    /\ log_level = 30
    /\ id_log = <<>>
    /\ entities = <<>>
    /\ setup_done = FALSE
    /\ extra_attributes = ExtraAttributesAtLoad
    /\ result = NoResult
NextSetup == Setup
SpecSetup == InitSetup /\ [][NextSetup]_vars

----------------------------------------------------------------------------
(* Properties *)

\* the entity, definition key and snapshot of the last read
LastEntity == entities[result.i]
LastKey == Desc(LastEntity.description).key
LastData == data[LastEntity.ent]
LastStatus == LastData[status_key_raw].c

ReadNativeValueOf(keys) == result.op = "native_value" /\ LastKey \in keys

\* the same, for the read a step has just made
NewEntity == entities'[result'.i]
NewKey == Desc(NewEntity.description).key
JustReadNativeValueOf(keys) == result'.op = "native_value" /\ NewKey \in keys

\* primary * 60 + secondary of the fields a definition names
TotalMinutes(d, desc) == d[desc.data_tag].i * 60 + d[desc.data_tag1].i

\* "HH:MM" of a minute count, on a 24 hour clock
TimeOfDay(m) ==
    LET tod == ((m % MinutesPerDay) + MinutesPerDay) % MinutesPerDay
        two(n) == IF n <= 9 THEN "0" \o ToString(n) ELSE ToString(n)
    IN  StrV(two(tod \div 60) \o ":" \o two(tod % 60))

\* C1 as stated: every read of stateElapsedTimeAbs or stateStartTimeAbs made
\* while the status is program-ended returns the entity's cached value and
\* leaves it unchanged.
C1_FrozenWhenEnded ==
    [][(/\ JustReadNativeValueOf({"stateElapsedTimeAbs", "stateStartTimeAbs"})
        /\ data[NewEntity.ent][status_key_raw].c = STATE_STATUS_PROGRAM_ENDED)
       => /\ result'.ret = entities[result'.i].last_started_time_reported
          /\ entities' = entities]_vars

\* C1 amended: a read of stateElapsedTimeAbs made while the status is
\* program-ended returns the cached started-at value and leaves it unchanged
\* when the elapsed total is non-zero, and None when the total is zero;
\* stateStartTimeAbs is not frozen: under program-ended it returns the clock
\* plus its total (None for a zero total).  No such read changes a cache.
C1_ElapsedAbsFrozenWhenEnded ==
    [][(/\ JustReadNativeValueOf({"stateElapsedTimeAbs", "stateStartTimeAbs"})
        /\ data[NewEntity.ent][status_key_raw].c = STATE_STATUS_PROGRAM_ENDED)
       => LET total == TotalMinutes(data[NewEntity.ent], Desc(NewEntity.description))
          IN  /\ entities' = entities
              /\ result'.ret =
                    IF total = 0 THEN None
                    ELSE IF NewKey = "stateElapsedTimeAbs"
                    THEN entities[result'.i].last_started_time_reported
                    ELSE TimeOfDay(now + total)]_vars

\* a frozen started-at value was returned under program-ended
C1_Witness ==
    /\ ReadNativeValueOf({"stateElapsedTimeAbs"})
    /\ LastStatus = STATE_STATUS_PROGRAM_ENDED
    /\ result.ret # None
    /\ result.ret = LastEntity.last_started_time_reported
    /\ result.ret # TimeOfDay(now - TotalMinutes(LastData, Desc(LastEntity.description)))

\* C2 as stated: a consumption sensor reads 0 in the six not-running statuses
\* and the raw value of its field in every other status.
C2_ZeroOrRaw ==
    ReadNativeValueOf({"stateCurrentEnergyConsumption", "stateCurrentWaterConsumption"})
    => result.ret =
          IF LastStatus \in {STATE_STATUS_ON, STATE_STATUS_OFF, STATE_STATUS_PROGRAMMED,
                             STATE_STATUS_WAITING_TO_START, STATE_STATUS_IDLE,
                             STATE_STATUS_SERVICE}
          THEN IntV(0)
          ELSE Get(LastData, Desc(LastEntity.description).data_tag)

\* C2 amended: a consumption sensor reads 0 in the six not-running statuses,
\* whatever its field holds; in every other status (not-connected included)
\* it reads None when the field is absent or holds a sentinel (-32766,
\* -32768) and the raw value of the field otherwise.
C2_ZeroOrGeneric ==
    ReadNativeValueOf({"stateCurrentEnergyConsumption", "stateCurrentWaterConsumption"})
    => LET raw == Get(LastData, Desc(LastEntity.description).data_tag)
       IN  result.ret =
              IF LastStatus \in {STATE_STATUS_ON, STATE_STATUS_OFF,
                                 STATE_STATUS_PROGRAMMED, STATE_STATUS_WAITING_TO_START,
                                 STATE_STATUS_IDLE, STATE_STATUS_SERVICE}
              THEN IntV(0)
              ELSE IF raw \in {IntV(-32766), IntV(-32768)} THEN None
              ELSE raw

\* a disconnected appliance's consumption sensor showed its raw value
C2_Witness ==
    /\ ReadNativeValueOf({"stateCurrentEnergyConsumption"})
    /\ LastStatus = STATE_STATUS_NOT_CONNECTED
    /\ result.ret = IntV(5)

\* C3: the status sensor is always available; any other sensor is available
\* exactly when the last poll succeeded and the status is not not-connected.
C3_Availability ==
    result.op = "available"
    => result.ret =
          BoolV(\/ LastKey = "stateStatus"
                \/ /\ last_update_success
                   /\ LastStatus # STATE_STATUS_NOT_CONNECTED)

\* after a failed poll of a connected appliance a sensor other than the
\* status sensor reported unavailable
C3_Witness ==
    /\ result.op = "available"
    /\ LastKey # "stateStatus"
    /\ ~last_update_success
    /\ LastStatus # STATE_STATUS_NOT_CONNECTED
    /\ result.ret = BoolV(FALSE)

\* the keys with a derivation of their own, evaluated before the generic path
SpecialKeys ==
    {"stateRemainingTime", "stateStartTime", "stateRemainingTimeAbs",
     "stateStartTimeAbs", "stateElapsedTime", "stateElapsedTimeAbs", "plateStep",
     "plateStep1", "plateStep2", "plateStep3", "plateStep4", "plateStep5"}

\* the last read was a native_value read derived on the generic path
ReadOnGenericPath ==
    /\ result.op = "native_value"
    /\ LastKey \notin SpecialKeys
    /\ ~(/\ LastKey \in {"stateCurrentEnergyConsumption",
                        "stateCurrentWaterConsumption"}
         /\ LastStatus \in {STATE_STATUS_ON, STATE_STATUS_OFF, STATE_STATUS_PROGRAMMED,
                            STATE_STATUS_WAITING_TO_START, STATE_STATUS_IDLE,
                            STATE_STATUS_SERVICE})

LastDesc == Desc(LastEntity.description)
\* the raw value at the last read's field path (None when absent)
LastRaw == Get(LastData, LastDesc.data_tag)
LastType == LastData[type_key_raw].c
\* the configured override for the last read's raw value (None when there is none)
LastOverride ==
    IF /\ LastEntity.unique_id \in DOMAIN conf_sensors
       /\ LastRaw.t = "int"
       /\ LastRaw.i \in DOMAIN conf_sensors[LastEntity.unique_id]
    THEN StrV(conf_sensors[LastEntity.unique_id][LastRaw.i])
    ELSE None

\* C4: on the generic path a raw value of -32766 or -32768 reads as None,
\* with or without a converter and with or without an override for it.
C4_SentinelIsNone ==
    (ReadOnGenericPath /\ LastRaw \in {IntV(-32766), IntV(-32768)})
    => result.ret = None

\* a sentinel with a converter and a valid override configured for it read as None
C4_Witness ==
    /\ ReadOnGenericPath
    /\ LastKey = "stateProgramId"
    /\ LastRaw = IntV(-32768)
    /\ LastOverride \in LastEntity.available_states
    /\ result.ret = None

\* C5: a present, non-sentinel raw value <= 0 reads as None exactly for the
\* program id and program phase sensors (override or not); every other
\* generic-path sensor shows the raw value (no converter) or its conversion.
C5_NoProgramOnlyForIdAndPhase ==
    (/\ ReadOnGenericPath
     /\ LastRaw.t = "int"
     /\ LastRaw \notin {IntV(-32766), IntV(-32768)}
     /\ LastRaw.i <= 0)
    => IF LastKey \in {"stateProgramId", "stateProgramPhase"}
       THEN result.ret = None
       ELSE /\ result.ret # None
            /\ result.ret.t # "raise"
            /\ result.ret = IF LastDesc.convert = NoTag THEN LastRaw
                            ELSE Convert(LastDesc.convert, LastRaw, LastType)

\* program type 0 was displayed through its table
C5_Witness ==
    /\ ReadOnGenericPath
    /\ LastKey = "stateProgramType"
    /\ LastRaw = IntV(0)
    /\ result.ret = StrV("normal_operation_mode")

\* C6 as stated: with a converter and a present, non-sentinel raw value the
\* read returns the override when it is a valid state and the conversion in
\* every other case.
C6_OverrideThenConvert ==
    (/\ ReadOnGenericPath
     /\ LastDesc.convert # NoTag
     /\ LastRaw # None
     /\ LastRaw \notin {IntV(-32766), IntV(-32768)})
    => result.ret =
          IF LastOverride # None /\ LastOverride \in LastEntity.available_states
          THEN LastOverride
          ELSE Convert(LastDesc.convert, LastRaw, LastType)

\* C6 amended: the same, for a raw value that is not a "no program" value
\* (<= 0) of the program id or program phase sensor; those read as None.
C6_OverrideThenConvertUnlessNoProgram ==
    (/\ ReadOnGenericPath
     /\ LastDesc.convert # NoTag
     /\ LastRaw # None
     /\ LastRaw \notin {IntV(-32766), IntV(-32768)})
    => result.ret =
          IF LastKey \in {"stateProgramId", "stateProgramPhase"} /\ LastRaw.i <= 0
          THEN None
          ELSE IF LastOverride # None /\ LastOverride \in LastEntity.available_states
          THEN LastOverride
          ELSE Convert(LastDesc.convert, LastRaw, LastType)

\* a valid override replaced the built-in table's name
C6_Witness ==
    /\ ReadOnGenericPath
    /\ LastKey = "stateProgramId"
    /\ LastRaw = IntV(5)
    /\ result.ret = StrV("coffee")
    /\ Convert(LastDesc.convert, LastRaw, LastType) = StrV("espresso")

\* C7 as stated: the minute sensors return primary * 60 + secondary; the
\* absolute variants return None for a zero total and a time of day otherwise.
C7_CompositeTime ==
    LET total == TotalMinutes(LastData, LastDesc)
    IN  /\ ReadNativeValueOf({"stateRemainingTime", "stateStartTime"})
           => result.ret = IntV(total)
        /\ ReadNativeValueOf({"stateRemainingTimeAbs", "stateStartTimeAbs",
                              "stateElapsedTimeAbs"})
           => IF total = 0 THEN result.ret = None ELSE result.ret.t = "str"

\* C7 amended: the minute sensors return primary * 60 + secondary (0 for a
\* zero total); stateRemainingTimeAbs and stateStartTimeAbs return None for a
\* zero total and the time of day now + total otherwise; stateElapsedTimeAbs
\* returns None for a zero total, the time of day now - total when the status
\* is not program-ended, and under program-ended its cached value, which is
\* None when no start time was computed before.
C7_CompositeTimeWithFreeze ==
    LET total == TotalMinutes(LastData, LastDesc)
    IN  /\ ReadNativeValueOf({"stateRemainingTime", "stateStartTime"})
           => result.ret = IntV(total)
        /\ ReadNativeValueOf({"stateRemainingTimeAbs", "stateStartTimeAbs"})
           => result.ret = IF total = 0 THEN None ELSE TimeOfDay(now + total)
        /\ ReadNativeValueOf({"stateElapsedTimeAbs"})
           => result.ret =
                 IF total = 0 THEN None
                 ELSE IF LastStatus # STATE_STATUS_PROGRAM_ENDED
                 THEN TimeOfDay(now - total)
                 ELSE LastEntity.last_started_time_reported

\* a zero remaining time was returned as 0 by the minute sensor
C7_Witness ==
    /\ ReadNativeValueOf({"stateRemainingTime"})
    /\ TotalMinutes(LastData, LastDesc) = 0
    /\ result.ret = IntV(0)

\* C8: after setup there is exactly one entity for every appliance and every
\* definition whose type list holds the appliance's type code, bound to that
\* appliance and definition, and none for any other pair.
C8_OneEntityPerMatch ==
    setup_done
    => /\ \A a \in DOMAIN data : \A j \in DefIndexes :
            Cardinality({k \in DOMAIN entities :
                            entities[k].ent = a /\ entities[k].description = j})
            = IF data[a][type_key_raw].c \in SENSOR_TYPES[j].types THEN 1 ELSE 0
       /\ \A k \in DOMAIN entities :
            /\ entities[k].ent \in DOMAIN data
            /\ entities[k].description \in DefIndexes

\* two appliances were set up: one of a type no definition lists, one a hob
C8_Witness ==
    /\ setup_done
    /\ DOMAIN data = {ApplianceOrder[1], ApplianceOrder[2]}
    /\ data[ApplianceOrder[1]][type_key_raw].c = "UNKNOWN_TYPE"
    /\ data[ApplianceOrder[2]][type_key_raw].c = HOB_INDUCTION
    /\ Len(entities) = 7
    /\ \A k \in DOMAIN entities : entities[k].ent = ApplianceOrder[2]

\* other clocks, configurations and logging levels a read could be made under
OtherClocks == {1425, 5, 700}
OtherConfs ==
    {NoOverrides} \cup {Overrides(data[a][type_key_raw].c, a) : a \in DOMAIN data}

\* what entity e's native_value returns under the given clock, level and
\* configuration, on the current snapshot
ValueUnder(e, clock, level, conf) ==
    NativeValue(e, data[e.ent], clock, level, conf, id_log).ret

\* C9 as stated: a read's value is determined by the snapshot, the definition
\* and the caches alone: the same read under any other clock, configuration
\* or logging level returns the same value.
C9_PureOfSnapshotAndCaches ==
    [][result'.op = "native_value"
       => \A clock \in OtherClocks, level \in LogLevels, conf \in OtherConfs :
             ValueUnder(entities[result'.i], clock, level, conf) = result'.ret]_vars

\* C9 amended: the value is determined by the snapshot, the definition and the
\* caches together with the clock (only for the three absolute time sensors),
\* the configured override (only for the program id sensor) and the logging
\* level (only for a program id/phase/type read on a snapshot lacking the raw
\* or localized key, which raises at INFO or finer and returns None otherwise).
C9_PureUpToClockConfAndLevel ==
    [][result'.op = "native_value"
       => \A clock \in OtherClocks, level \in LogLevels, conf \in OtherConfs :
             (/\ \/ clock = now
                 \/ NewKey \notin {"stateRemainingTimeAbs", "stateStartTimeAbs",
                                   "stateElapsedTimeAbs"}
              /\ \/ conf = conf_sensors
                 \/ NewKey # "stateProgramId"
              /\ \/ (level <= 20) = (log_level <= 20)
                 \/ NewKey \notin {"stateProgramId", "stateProgramPhase",
                                   "stateProgramType"}
                 \/ {Desc(NewEntity.description).data_tag,
                     Desc(NewEntity.description).data_tag_loc}
                        \subseteq DOMAIN data[NewEntity.ent])
             => ValueUnder(entities[result'.i], clock, level, conf) = result'.ret]_vars

\* the elapsed minutes were read after the clock had advanced, with overrides
\* configured
C9_Witness ==
    /\ ReadNativeValueOf({"stateElapsedTime"})
    /\ now # 1425
    /\ conf_sensors # NoOverrides
    /\ LastStatus # STATE_STATUS_PROGRAM_ENDED
    /\ result.ret = IntV(TotalMinutes(LastData, LastDesc))

\* C10: on the generic path a read on a snapshot in which the sensor's field
\* is absent returns None, at every logging level, and raises nothing.
C10_AbsentIsNone ==
    (ReadOnGenericPath /\ LastRaw = None) => result.ret = None

\* the sensors whose reads are recorded in the diagnostic buffer
LogKeys == {"stateProgramPhase", "stateProgramId", "stateProgramType"}

\* a step in which a recorded sensor was read at INFO or finer on a snapshot
\* holding its raw and localized field
JustLoggedRead ==
    /\ JustReadNativeValueOf(LogKeys)
    /\ log_level <= INFO
    /\ {Desc(NewEntity.description).data_tag, Desc(NewEntity.description).data_tag_loc}
           \subseteq DOMAIN data[NewEntity.ent]

\* C11: when the buffer is full and a program id/phase/type sensor is read at
\* INFO or finer, the oldest record is dropped: the buffer afterwards is the
\* previous buffer without its first record, followed by the new record.
C11_DropOldest ==
    [][(JustLoggedRead /\ Len(id_log) = IdLogCapacity)
       => /\ Len(id_log') = IdLogCapacity
          /\ SubSeq(id_log', 1, IdLogCapacity - 1) = Tail(id_log)]_vars

\* C12: the buffer never holds more than 500 records, and it is changed only
\* by a read of a program id, phase or type sensor made at INFO or finer:
\* every other step, and every other read, leaves it as it was.
C12_BoundedAndOnlyLoggedReadsAppend ==
    [][/\ Len(id_log) <= IdLogCapacity => Len(id_log') <= IdLogCapacity
       /\ id_log' # id_log
             => (JustReadNativeValueOf(LogKeys) /\ log_level <= INFO)]_vars

\* the program phase was read at INFO or finer and its record is the last of
\* a full buffer
C12_Witness ==
    /\ ReadNativeValueOf({"stateProgramPhase"})
    /\ log_level <= INFO
    /\ Len(id_log) = IdLogCapacity
    /\ id_log[IdLogCapacity].key = "stateProgramPhase"
    /\ id_log[IdLogCapacity].raw = LastRaw

PlateKeys ==
    {"plateStep", "plateStep1", "plateStep2", "plateStep3", "plateStep4", "plateStep5"}

\* C13: a cooking zone sensor reads 0 when the zone's raw field is absent
\* (the lookup finds no value), and otherwise the localized variant of the
\* zone's field, never the raw value: a sentinel or a value <= 0 in the raw
\* field changes nothing, and no converter is applied.
C13_PlateStepLocalized ==
    ReadNativeValueOf(PlateKeys)
    => /\ LastRaw = None => result.ret = IntV(0)
       /\ LastRaw # None => /\ result.ret = LastData[LastDesc.data_tag_loc]
                            /\ result.ret # LastRaw

\* zone 4 was read while its raw field held a sentinel
C13_Witness ==
    /\ ReadNativeValueOf({"plateStep3"})
    /\ LastRaw = IntV(-32768)
    /\ result.ret = StrV("text -32768")

\* C14: every entity's unique id is its definition key, a hyphen and its
\* appliance key, and no two entities created by one setup share a unique id.
C14_UniqueIds ==
    setup_done
    => /\ \A i \in DOMAIN entities :
             entities[i].unique_id
                = Desc(entities[i].description).key \o "-" \o entities[i].ent
       /\ \A i, j \in DOMAIN entities :
             entities[i].unique_id = entities[j].unique_id => i = j

\* two dishwashers were set up: each has a status sensor of its own
C14_Witness ==
    /\ setup_done
    /\ \A a \in DOMAIN data : data[a][type_key_raw].c = DISHWASHER
    /\ \E i, j \in DOMAIN entities :
          /\ entities[i].unique_id = "stateStatus-000111"
          /\ entities[j].unique_id = "stateStatus-000222"

\* C15: for every present raw temperature v other than the two sentinels,
\* the temperature and core temperature sensors read v / 100 (here: v
\* hundredths), and the target temperature sensors read the integer q nearest
\* to v / 100 between it and zero.
C15_TemperatureConversion ==
    (result.op = "native_value" /\ LastRaw.t = "int" /\ ~IsSentinel(LastRaw))
    => LET v == LastRaw.i
           q == result.ret.i
       IN  /\ LastKey \in {"temperature", "temperature2", "temperature3",
                            "coreTemperature", "coreTargetTemperature"}
              => result.ret = [t |-> "float", hundredths |-> v]
           /\ LastKey \in {"targetTemperature", "targetTemperature2",
                            "targetTemperature3"}
              => /\ result.ret.t = "int"
                 /\ v >= 0 => (100 * q <= v /\ v < 100 * (q + 1))
                 /\ v < 0 => (v <= 100 * q /\ 100 * (q - 1) < v /\ q <= 0)

\* a target temperature of -18.5 degrees was read as -18
C15_Witness ==
    /\ ReadNativeValueOf({"targetTemperature2"})
    /\ LastRaw = IntV(-1850)
    /\ result.ret = IntV(-18)

\* C16: the definitions are immutable after load: whatever properties are
\* read, every definition's extra attributes template has the names and the
\* values it was defined with.
C16_DefinitionsImmutable == extra_attributes = ExtraAttributesAtLoad

\* the entity that the step's read was made on, before the read
ReadingEntity == entities[result'.i]

\* C17: a read of the elapsed minutes made while the status is not
\* program-ended returns primary * 60 + secondary and stores it in the
\* entity's elapsed cache; a read made under program-ended returns what the
\* cache holds (None after construction), whatever the elapsed fields hold,
\* and leaves the cache as it was.  No other step changes the cache, so the
\* cache holds the value of the entity's latest read outside program-ended.
C17_ElapsedFreeze ==
    [][/\ JustReadNativeValueOf({"stateElapsedTime"})
          => LET d == data[ReadingEntity.ent]
                 total == IntV(TotalMinutes(d, Desc(ReadingEntity.description)))
             IN  IF d[status_key_raw].c # STATE_STATUS_PROGRAM_ENDED
                 THEN /\ result'.ret = total
                      /\ NewEntity.last_elapsed_time_reported = total
                 ELSE /\ result'.ret = ReadingEntity.last_elapsed_time_reported
                      /\ NewEntity.last_elapsed_time_reported
                            = ReadingEntity.last_elapsed_time_reported
       /\ ~setup_done /\ setup_done'
          => \A i \in DOMAIN entities' : entities'[i].last_elapsed_time_reported = None
       /\ setup_done
          => \A i \in DOMAIN entities :
                (~JustReadNativeValueOf({"stateElapsedTime"}) \/ result'.i # i)
                => entities'[i].last_elapsed_time_reported
                      = entities[i].last_elapsed_time_reported]_vars

\* under program-ended the elapsed minutes read the cached 30 minutes although
\* the snapshot holds another duration
C17_Witness ==
    /\ ReadNativeValueOf({"stateElapsedTime"})
    /\ LastStatus = STATE_STATUS_PROGRAM_ENDED
    /\ result.ret = IntV(30)
    /\ TotalMinutes(LastData, LastDesc) = 60
    /\ LastEntity.last_elapsed_time_reported = IntV(30)

\* C18: for the started-at sensor a zero duration comes first: whenever
\* primary * 60 + secondary is zero the read returns None and leaves the
\* started-time cache as it was, also under program-ended with a start time
\* cached; the cached value is returned when the status is program-ended and
\* the total is not zero, and a read outside program-ended with a non-zero
\* total returns the start time it computes.
C18_ZeroBeforeFreeze ==
    [][JustReadNativeValueOf({"stateElapsedTimeAbs"})
       => LET d == data[ReadingEntity.ent]
              total == TotalMinutes(d, Desc(ReadingEntity.description))
              cached == ReadingEntity.last_started_time_reported
          IN  /\ total = 0
                 => /\ result'.ret = None
                    /\ NewEntity.last_started_time_reported = cached
              /\ (total # 0 /\ d[status_key_raw].c = STATE_STATUS_PROGRAM_ENDED)
                 => result'.ret = cached
              /\ (total # 0 /\ d[status_key_raw].c # STATE_STATUS_PROGRAM_ENDED)
                 => result'.ret = TimeOfDay(now - total)]_vars

\* under program-ended, with a start time cached, a zero duration read None
C18_Witness ==
    /\ ReadNativeValueOf({"stateElapsedTimeAbs"})
    /\ LastStatus = STATE_STATUS_PROGRAM_ENDED
    /\ TotalMinutes(LastData, LastDesc) = 0
    /\ LastEntity.last_started_time_reported # None
    /\ result.ret = None

\* C19: the two caches are private to their entity.  A step changes an
\* entity's elapsed cache only if it is that entity's own native_value read
\* as stateElapsedTime outside program-ended, and its started-time cache only
\* if it is that entity's own native_value read as stateElapsedTimeAbs with a
\* non-zero total outside program-ended; reads of available and of
\* extra_state_attributes, reads of other sensors, reads by other entities and
\* coordinator updates change no cache.
C19_CachesPrivate ==
    [][setup_done
       => \A i \in DOMAIN entities :
             LET d == data[entities[i].ent]
                 own(key) == JustReadNativeValueOf({key}) /\ result'.i = i
                 running == d[status_key_raw].c # STATE_STATUS_PROGRAM_ENDED
             IN  /\ entities'[i].last_elapsed_time_reported
                        # entities[i].last_elapsed_time_reported
                    => own("stateElapsedTime") /\ running
                 /\ entities'[i].last_started_time_reported
                        # entities[i].last_started_time_reported
                    => /\ own("stateElapsedTimeAbs") /\ running
                       /\ TotalMinutes(d, Desc(entities[i].description)) # 0]_vars

\* the attributes were read while both caches of the appliance's elapsed
\* sensors held a value
C19_Witness ==
    /\ result.op = "extra_state_attributes"
    /\ result.ret.t = "dict"
    /\ \E i, j \in DOMAIN entities :
          /\ entities[i].last_elapsed_time_reported = IntV(30)
          /\ entities[j].last_started_time_reported = TimeOfDay(now - 30)
          /\ result.i \notin {i, j}

====
